---- MODULE Spec2Model ----
(***************************************************************************)
(* youtube_dl/extractor/abc.py: the two extractors ABCIE (abc.net.au news  *)
(* articles) and ABCIViewIE (abc.net.au:iview catch-up programs), modelled *)
(* as calls of _real_extract that advance from one outbound request to the *)
(* next.  Several calls may be in progress on the same extractor instance. *)
(***************************************************************************)
EXTENDS Integers, Sequences, FiniteSets, TLC

\* ------------------------------------------------------------------ bounds
NCalls == 2        \* extraction calls that may be in progress together
MaxPlaylist == 2   \* entries in videoParams['playlist']
MaxElems == 2      \* elements of an inline data block's list
MaxVariants == 2   \* variants an HLS master playlist lists
MaxTs == 2         \* distinct values int(time.time()) takes

Calls == 1..NCalls

\* ------------------------------------------------------ Python values
\* None / a value: the empty tuple, or the one-element tuple of the value.
None == <<>>
Some(x) == <<x>>
Val(o) == o[1]

\* dict.get(k): None when the key is missing.
Get(d, k) == IF k \in DOMAIN d THEN Some(d[k]) ELSE None

\* Truthiness of an optional string: None and '' are falsy.
Truthy(o) == o # None /\ Val(o) # ""

EmptyDict == [k \in {} |-> ""]

\* An optional key of a dict literal.
Field(k, present, v) == IF present THEN k :> v ELSE EmptyDict

RECURSIVE SeqsUpTo(_, _)
SeqsUpTo(S, n) ==
    IF n = 0 THEN {<<>>}
    ELSE LET shorter == SeqsUpTo(S, n - 1)
         IN shorter \cup {Append(s, x) : s \in {t \in shorter : Len(t) = n - 1}, x \in S}

\* ------------------------------------------------------ host helpers
Digits == <<"0", "1", "2", "3", "4", "5", "6", "7", "8", "9">>

DigitOf(ch) == (CHOOSE i \in 1..10 : Digits[i] = ch) - 1

IsDigit(ch) == \E i \in 1..10 : Digits[i] = ch

RECURSIVE IntOf(_)
IntOf(s) == IF s = <<>> THEN 0
            ELSE 10 * IntOf(SubSeq(s, 1, Len(s) - 1)) + DigitOf(s[Len(s)])

\* utils.int_or_none on an optional string of characters: None stays None, a
\* string that is not a decimal number gives None, never an error.
int_or_none(o) ==
    IF o = None THEN None
    ELSE IF Val(o) # <<>> /\ \A i \in 1..Len(Val(o)) : IsDigit(Val(o)[i])
         THEN Some(IntOf(Val(o)))
         ELSE None

\* Days from 1970-01-01 to the civil date y-m-d (proleptic Gregorian).
DaysFromCivil(y, m, d) ==
    LET yy == IF m <= 2 THEN y - 1 ELSE y
        era == yy \div 400
        yoe == yy - era * 400
        mp == (m + 9) % 12
        doy == (153 * mp + 2) \div 5 + d - 1
        doe == yoe * 365 + yoe \div 4 - yoe \div 100 + doy
    IN era * 146097 + doe - 719468

\* utils.parse_iso8601(date, ' '): the UTC unix time of 'YYYY-MM-DD hh:mm:ss',
\* given as its six fields; None for None.
parse_iso8601(o) ==
    IF o = None THEN None
    ELSE LET t == Val(o)
         IN Some(DaysFromCivil(t[1], t[2], t[3]) * 86400 + t[4] * 3600 + t[5] * 60 + t[6])

\* utils.update_url_query(url, query): the url with the query parameters set.
update_url_query(url, query) == [url |-> url, query |-> query]

\* An exception leaving _real_extract.
Raise(exc, msg, expected) ==
    [kind |-> "error", exc |-> exc, msg |-> msg, expected |-> expected]

TbrKey(f) == IF f.tbr = None THEN -1 ELSE Val(f.tbr)

RECURSIVE InsertByTbr(_, _)
InsertByTbr(sorted, f) ==
    IF sorted = <<>> THEN <<f>>
    ELSE IF TbrKey(sorted[Len(sorted)]) <= TbrKey(f) THEN Append(sorted, f)
    ELSE Append(InsertByTbr(SubSeq(sorted, 1, Len(sorted) - 1), f), sorted[Len(sorted)])

RECURSIVE SortedByTbr(_)
SortedByTbr(fs) ==
    IF fs = <<>> THEN <<>>
    ELSE InsertByTbr(SortedByTbr(SubSeq(fs, 1, Len(fs) - 1)), fs[Len(fs)])

\* InfoExtractor._sort_formats: no formats is an ExtractorError; otherwise the
\* formats ordered worst to best (here: by total bitrate, stable).
NoFormatsError == Raise("ExtractorError", <<"No video formats found">>, FALSE)

_sort_formats(fs) ==
    IF fs = <<>> THEN [raised |-> TRUE, error |-> NoFormatsError]
    ELSE [raised |-> FALSE, formats |-> SortedByTbr(fs)]

\* InfoExtractor._extract_m3u8_formats(m3u8_url, ..., 'mp4', entry_protocol=
\* 'm3u8_native', m3u8_id='hls', fatal=False): one format per variant the
\* master playlist lists, best first as served; a failed download or an empty
\* playlist gives the empty list.
_extract_m3u8_formats(m3u8_url, nvariants) ==
    [i \in 1..nvariants |->
        [url |-> m3u8_url, format_id |-> <<"hls", nvariants + 1 - i>>,
         ext |-> "mp4", protocol |-> "m3u8_native", tbr |-> Some(nvariants + 1 - i)]]

\* InfoExtractor._html_search_meta(names, webpage): the content of the first
\* of the named meta tags the page has, None when it has none of them.
RECURSIVE _html_search_meta(_, _)
_html_search_meta(names, meta) ==
    IF names = <<>> THEN None
    ELSE IF names[1] \in DOMAIN meta THEN Some(meta[names[1]])
    ELSE _html_search_meta(Tail(names), meta)

\* ------------------------------------------------------------ the sites
NewsUrl ==
    [host |-> "www.abc.net.au",
     dir |-> <<"news", "2015-10-23", "nab-lifts-interest-rates-following-westpac-and-cba">>,
     id |-> <<"6", "8", "8", "0", "0", "8", "0">>]

IviewUrl ==
    [host |-> "iview.abc.net.au",
     dir |-> <<"programs", "call-the-midwife">>,
     id |-> <<"Z", "W", "0", "8", "9", "8", "A", "0", "0", "3", "S", "0", "0">>]

Urls == {NewsUrl, IviewUrl}

\* ABCIE._VALID_URL and ABCIViewIE._VALID_URL
SuitableABCIE(url) ==
    /\ url.host \in {"www.abc.net.au", "abc.net.au"}
    /\ Len(url.dir) \in 2..3
    /\ url.dir[1] = "news"
    /\ url.id # <<>>
    /\ \A i \in 1..Len(url.id) : IsDigit(url.id[i])

SuitableABCIViewIE(url) ==
    /\ url.host = "iview.abc.net.au"
    /\ Len(url.dir) = 2
    /\ url.dir[1] = "programs"
    /\ url.id # <<>>

ABCIE_NAME == "abc.net.au"
ABCIViewIE_NAME == "abc.net.au:iview"

ExtractorFor(url) == IF SuitableABCIE(url) THEN ABCIE_NAME ELSE ABCIViewIE_NAME

_match_id(url) == url.id

\* Elements of an inline data block as the article pages carry them.
ElemFull ==
    [url |-> "http://mpegmedia.abc.net.au/news/video/a.mp4", codec |-> "h264",
     width |-> <<"6", "4", "0">>, height |-> <<"3", "6", "0">>,
     bitrate |-> <<"9", "0", "0">>, filesize |-> <<"1", "2">>]
ElemAudio ==
    [url |-> "http://mpegmedia.abc.net.au/news/audio/b.mp3",
     bitrate |-> <<"1", "2", "8">>, filesize |-> <<"n", "a">>]
ElemEmptyUrl == [url |-> ""]
ElemNoUrl == [codec |-> "h264"]

Elements == {ElemFull, ElemAudio, ElemEmptyUrl, ElemNoUrl}

\* What _parse_json makes of the captured json_data: None when it is not JSON
\* even after js_to_json, else a single object or a list of objects.
JsonObject(e) == [isList |-> FALSE, obj |-> e]
JsonList(s) == [isList |-> TRUE, items |-> s]

JsonData ==
    {None} \cup {Some(JsonObject(e)) : e \in Elements}
           \cup {Some(JsonList(s)) : s \in SeqsUpTo(Elements, MaxElems)}

BlockTypes == {"Video", "Audio", "YouTube"}

OgMeta ==
    ("og:title" :> "NAB lifts interest rates, following Westpac and CBA")
    @@ ("og:description" :> "NAB has lifted its home loan rates")
    @@ ("og:image" :> "http://www.abc.net.au/news/image/6880080.jpg")

\* A page without Open Graph tags.
NoMeta == EmptyDict

ExpiredBanner == "This video has expired."

\* An article page: its first inline data block (None when it has none), the
\* text of its expired banner (None when it has none), its meta tags.
NewsPage(block, expired, meta) == [block |-> block, expired |-> expired, meta |-> meta]

NewsPages ==
    {NewsPage(b, e, m) :
        b \in {None} \cup {Some([type |-> t, json_data |-> j]) : t \in BlockTypes, j \in JsonData},
        e \in {None, Some(ExpiredBanner)},
        m \in {OgMeta, NoMeta}}

TierNames == {"sd", "sd-low"}

StreamUrl ==
    ("sd" :> "http://iviewhls-i.akamaihd.net/ZW0898A003S00/sd.m3u8")
    @@ ("sd-low" :> "http://iviewhls-i.akamaihd.net/ZW0898A003S00/sd-low.m3u8")

ProgramEntry(tiers, captions) ==
    [type |-> "program", streams |-> [hls |-> [t \in tiers |-> StreamUrl[t]]]]
    @@ Field("captions", captions,
             ("src-vtt" :> "http://cdn.iview.abc.net.au/cc/ZW0898A003S00.vtt"))

StationIdEntry ==
    [type |-> "station-id",
     streams |-> [hls |-> [t \in {"sd"} |-> "http://iviewhls-i.akamaihd.net/station/sd.m3u8"]]]

Entries ==
    {ProgramEntry(S, cap) : S \in SUBSET TierNames, cap \in BOOLEAN} \cup {StationIdEntry}

VideoParams(t, s, h, pl) ==
    Field("title", t, "Series 5 Ep 3")
    @@ Field("seriesTitle", s, "Call The Midwife")
    @@ Field("seriesHouseNumber", s, "CTM")
    @@ Field("episodeHouseNumber", h, "ZW0898A003S00")
    @@ ("playlist" :> pl)
    @@ ("eventDuration" :> <<"3", "5", "4", "0">>)
    @@ ("pubDate" :> <<2017, 12, 28, 22, 13, 7>>)
    @@ ("channel" :> "abc1")

IviewMeta ==
    ("og:description" :> "Sister Julienne is faced with a dilemma")
    @@ ("twitter:image:src" :> "http://cdn.iview.abc.net.au/thumbs/ZW0898A003S00.jpg")
    @@ ("episodeNumber" :> <<"3">>)

\* A program page: its 'videoParams = {...};' assignment (None when the page
\* has none; Some(None) when the object is not JSON), its meta tags.
IviewPage(videoParams) == [videoParams |-> videoParams, meta |-> IviewMeta]

IviewPages ==
    {IviewPage(vp) :
        vp \in {None, Some(None)}
               \cup {Some(Some(VideoParams(t, s, h, pl))) :
                        t \in BOOLEAN, s \in BOOLEAN, h \in BOOLEAN,
                        pl \in SeqsUpTo(Entries, MaxPlaylist)}}

PagesOf(url) == IF SuitableABCIE(url) THEN NewsPages ELSE IviewPages

\* Tokens the sign endpoint hands out.
Tokens == {"exp=1~acl=/*~hmac=aa", "exp=2~acl=/*~hmac=bb"}

\* ------------------------------------------------------------- state
VARIABLES
    calls,   \* the calls of _real_extract: call id -> its locals and outcome
    site     \* the page snapshot served for each requested url

vars == <<calls, site>>

\* The locals of a call at entry.  formats = None is the unbound local.
NewCall(url) ==
    [ie |-> ExtractorFor(url), url |-> url, pc |-> "start",
     webpage |-> None, video_params |-> None, title |-> None, stream |-> None,
     house_number |-> None, ts |-> 0, token |-> None,
     tier |-> 1, looked_up |-> <<>>, formats |-> None,
     fetched |-> <<>>, log |-> <<>>, result |-> None]

Finished(r, result) == [r EXCEPT !.pc = "done", !.result = Some(result)]

Store(c, r) == calls' = [calls EXCEPT ![c] = r] /\ UNCHANGED site

\* ------------------------------------------------------------- ABCIE
\* if not isinstance(urls_info, list): urls_info = [urls_info]
AsList(urls_info) == IF urls_info.isList THEN urls_info.items ELSE <<urls_info.obj>>

url_result(u) == [_type |-> "url", url |-> u]

playlist_result(entries) == [kind |-> "PlaylistRecord", entries |-> entries]

\* The playlist built back to front.
PlaylistEntriesReversed(urls_info) ==
    [i \in 1..Len(urls_info) |-> url_result(urls_info[Len(urls_info) + 1 - i].url)]

\* [self.url_result(url_info['url']) for url_info in urls_info]
PlaylistEntries(urls_info) ==
    [i \in 1..Len(urls_info) |-> url_result(urls_info[i].url)]

\* The formats appended to a list kept on the extractor instance, which every
\* call of _real_extract shares.
NewsFormatsShared(self, urls_info, type) ==
    LET own == [i \in 1..Len(urls_info) |->
                   LET url_info == urls_info[i]
                   IN [url |-> url_info.url,
                       vcodec |-> IF type = "Video" THEN Get(url_info, "codec") ELSE Some("none"),
                       width |-> int_or_none(Get(url_info, "width")),
                       height |-> int_or_none(Get(url_info, "height")),
                       tbr |-> int_or_none(Get(url_info, "bitrate")),
                       filesize |-> int_or_none(Get(url_info, "filesize"))]]
        earlier == {c \in DOMAIN calls \ {self} :
                       /\ calls[c].ie = ABCIE_NAME
                       /\ calls[c].result # None
                       /\ Val(calls[c].result).kind = "MediaRecord"}
    IN IF earlier = {} THEN own
       ELSE Val(calls[CHOOSE c \in earlier : TRUE].result).formats \o own

\* The formats list comprehension of ABCIE._real_extract.
NewsFormats(self, urls_info, type) ==
    [i \in 1..Len(urls_info) |->
        LET url_info == urls_info[i]
        IN [url |-> url_info.url,
            vcodec |-> IF type = "Video" THEN Get(url_info, "codec") ELSE Some("none"),
            width |-> int_or_none(Get(url_info, "width")),
            height |-> int_or_none(Get(url_info, "height")),
            tbr |-> int_or_none(Get(url_info, "bitrate")),
            filesize |-> int_or_none(Get(url_info, "filesize"))]]

\* The expired error raised without expected=True.
ExpiredErrorUnexpected(expired) ==
    Raise("ExtractorError", <<ABCIE_NAME, " said: ", expired>>, FALSE)

\* raise ExtractorError('%s said: %s' % (self.IE_NAME, expired), expected=True)
ExpiredError(expired) ==
    Raise("ExtractorError", <<ABCIE_NAME, " said: ", expired>>, TRUE)

UnableToExtractError == Raise("ExtractorError", <<"Unable to extract video urls">>, FALSE)

\* What the host raises: a failed download, a failed regex search, bad JSON.
DownloadError == Raise("ExtractorError", <<"Unable to download webpage">>, FALSE)
RegexNotFoundError(name) == Raise("ExtractorError", <<"Unable to extract ", name>>, FALSE)
ParseJsonError == Raise("ExtractorError", <<"Failed to parse JSON">>, FALSE)

KeyError(key) == Raise("KeyError", <<key>>, FALSE)

\* The page has no inline data block: lines 69-73.
NoDataBlock(page) ==
    IF Truthy(page.expired) THEN ExpiredError(Val(page.expired))
    ELSE UnableToExtractError

\* Lines 78-102, from the parsed urls_info on.
FromUrlsInfo(self, video_id, page, type, parsed) ==
    LET urls_info == AsList(parsed)
        missing == \E i \in 1..Len(urls_info) : "url" \notin DOMAIN urls_info[i]
    IN IF type = "YouTube"
       THEN IF missing THEN KeyError("url")
            ELSE playlist_result(PlaylistEntries(urls_info))
       ELSE IF missing THEN KeyError("url")
            ELSE LET sorted == _sort_formats(NewsFormats(self, urls_info, type))
                     title == Get(page.meta, "og:title")
                 IN IF sorted.raised THEN sorted.error
                    ELSE IF title = None THEN RegexNotFoundError("OpenGraph title")
                    ELSE [kind |-> "MediaRecord",
                          id |-> video_id,
                          title |-> Val(title),
                          formats |-> sorted.formats,
                          description |-> Get(page.meta, "og:description"),
                          thumbnail |-> Get(page.meta, "og:image")]

\* ABCIE._real_extract after the page is fetched: the outcome and the json
\* fragments handed to _parse_json on the way.
NewsOutcome(self, url, page) ==
    IF page.block = None
    THEN [result |-> NoDataBlock(page), parse_calls |-> <<>>]
    ELSE LET mobj == Val(page.block)
             call == <<[op |-> "_parse_json", url |-> url]>>
         IN IF mobj.json_data = None
            THEN [result |-> ParseJsonError, parse_calls |-> call]
            ELSE [result |-> FromUrlsInfo(self, _match_id(url), page, mobj.type,
                                          Val(mobj.json_data)),
                  parse_calls |-> call]

\* -------------------------------------------------------- ABCIViewIE
\* for sd in ('sd', 'sd-low')
Tiers == <<"sd", "sd-low">>

\* next(s for s in video_params['playlist'] if s.get('type') == 'program')
RECURSIVE SelectStream(_)
SelectStream(playlist) ==
    IF playlist = <<>> THEN None
    ELSE IF Get(playlist[1], "type") = Some("program") THEN Some(playlist[1])
    ELSE SelectStream(Tail(playlist))

StopIteration == Raise("StopIteration", <<>>, FALSE)

\* str.format of a value that may be None
Str(o) == IF o = None THEN "None" ELSE Val(o)

\* '/auth/hls/sign?ts={0}&hn={1}&d=android-mobile'.format(int(time.time()), house_number)
SignPath(ts, house_number) ==
    <<"/auth/hls/sign?ts=", ts, "&hn=", Str(house_number), "&d=android-mobile">>

SigKey == "android.content.res.Resources"

\* hmac.new(key, msg, hashlib.sha256).hexdigest(), as the term it denotes.
HmacSha256Hex(key, msg) == [mac |-> "hmac-sha256", key |-> key, msg |-> msg, enc |-> "hex"]

\* The signature taken over the whole request url instead of the path.
SigOfUrl(path) == HmacSha256Hex(SigKey, <<"http://iview.abc.net.au", path>>)

Sig(path) == HmacSha256Hex(SigKey, path)

\* 'http://iview.abc.net.au{0}&sig={1}'.format(path, sig)
TokenUrl(path, sig) == <<"http://iview.abc.net.au", path, "&sig=", sig>>

\* The manifest url left as it is.
tokenize_url_dropped(url, token) == update_url_query(url, EmptyDict)

tokenize_url(url, token) == update_url_query(url, [hdnea |-> token])

\* try_get(stream, lambda x: x['streams']['hls'][sd], compat_str)
TierUrl(stream, sd) ==
    IF /\ "streams" \in DOMAIN stream
       /\ "hls" \in DOMAIN stream.streams
       /\ sd \in DOMAIN stream.streams.hls
    THEN Some(stream.streams.hls[sd])
    ELSE None

\* The loop left after its first iteration whatever it found.
BreaksAlways(formats) == TRUE

\* The loop never left early.
BreaksNever(formats) == FALSE

\* if formats: break
BreaksLoop(formats) == formats # <<>>

\* Lines 162-168.
Subtitles(stream) ==
    LET captions == IF "captions" \in DOMAIN stream THEN stream.captions ELSE EmptyDict
        src_vtt == Get(captions, "src-vtt")
    IN IF Truthy(src_vtt) THEN [en |-> <<[url |-> Val(src_vtt), ext |-> "vtt"]>>]
       ELSE EmptyDict

UnboundLocalError ==
    Raise("UnboundLocalError",
          <<"local variable 'formats' referenced before assignment">>, FALSE)

\* Lines 131-136: the locals set from the page, or the exception raised.
ParamsOutcome(page) ==
    IF page.videoParams = None
    THEN [raised |-> TRUE, error |-> RegexNotFoundError("video params")]
    ELSE IF Val(page.videoParams) = None
    THEN [raised |-> TRUE, error |-> ParseJsonError]
    ELSE LET video_params == Val(Val(page.videoParams))
             stream == SelectStream(video_params["playlist"])
         IN IF ~Truthy(Get(video_params, "title")) /\ "seriesTitle" \notin DOMAIN video_params
            THEN [raised |-> TRUE, error |-> KeyError("seriesTitle")]
            ELSE IF stream = None
            THEN [raised |-> TRUE, error |-> StopIteration]
            ELSE [raised |-> FALSE,
                  video_params |-> video_params,
                  title |-> IF Truthy(Get(video_params, "title"))
                            THEN video_params["title"] ELSE video_params["seriesTitle"],
                  stream |-> Val(stream),
                  house_number |-> Get(video_params, "episodeHouseNumber")]

\* Lines 160-184: what the call ends with once the tier loop is over.
IviewResult(r) ==
    IF r.formats = None THEN UnboundLocalError
    ELSE LET sorted == _sort_formats(Val(r.formats))
             video_params == Val(r.video_params)
             page == Val(r.webpage)
             video_id == _match_id(r.url)
             series_id == Get(video_params, "seriesHouseNumber")
         IN IF sorted.raised THEN sorted.error
            ELSE [kind |-> "MediaRecord",
                  id |-> video_id,
                  title |-> Val(r.title),
                  description |-> _html_search_meta(<<"og:description", "twitter:description">>,
                                                    page.meta),
                  thumbnail |-> _html_search_meta(<<"og:image", "twitter:image:src">>, page.meta),
                  duration |-> int_or_none(Get(video_params, "eventDuration")),
                  timestamp |-> parse_iso8601(Get(video_params, "pubDate")),
                  series |-> Get(video_params, "seriesTitle"),
                  series_id |-> IF Truthy(series_id) THEN Val(series_id)
                                ELSE SubSeq(video_id, 1, 7),
                  episode_number |-> int_or_none(_html_search_meta(<<"episodeNumber">>, page.meta)),
                  episode |-> _html_search_meta(<<"episode_title">>, page.meta),
                  uploader_id |-> Get(video_params, "channel"),
                  formats |-> sorted.formats,
                  subtitles |-> Subtitles(Val(r.stream))]

\* One iteration of the tier loop is over: leave the loop on break or after
\* the last tier and run the rest of the function, else go to the next tier.
AfterTier(r, break) ==
    IF break \/ r.tier = Len(Tiers) THEN Finished(r, IviewResult(r))
    ELSE [r EXCEPT !.tier = @ + 1]

\* ----------------------------------------------------------- actions
PageRequest(r) == [op |-> "_download_webpage", url |-> r.url]

\* webpage = self._download_webpage(url, video_id), of either extractor
DownloadWebpage(c) ==
    LET r == calls[c]
    IN /\ r.pc = "start"
       /\ Store(c, [r EXCEPT !.pc = "page",
                             !.webpage = Some(site[r.url]),
                             !.fetched = Append(@, Some(site[r.url])),
                             !.log = Append(@, PageRequest(r))])

DownloadWebpageFails(c) ==
    LET r == calls[c]
    IN /\ r.pc = "start"
       /\ Store(c, Finished([r EXCEPT !.fetched = Append(@, None),
                                      !.log = Append(@, PageRequest(r))],
                            DownloadError))

\* ABCIE._real_extract, lines 66-102
NewsExtract(c) ==
    LET r == calls[c]
        out == NewsOutcome(c, r.url, Val(r.webpage))
    IN /\ r.pc = "page"
       /\ r.ie = ABCIE_NAME
       /\ Store(c, Finished([r EXCEPT !.log = @ \o out.parse_calls], out.result))

\* ABCIViewIE._real_extract, lines 131-141
IviewVideoParams(c) ==
    LET r == calls[c]
        out == ParamsOutcome(Val(r.webpage))
    IN /\ r.pc = "page"
       /\ r.ie = ABCIViewIE_NAME
       /\ IF out.raised
          THEN Store(c, Finished(r, out.error))
          ELSE \E ts \in 1..MaxTs :
                 Store(c, [r EXCEPT !.pc = "token",
                                    !.video_params = Some(out.video_params),
                                    !.title = Some(out.title),
                                    !.stream = Some(out.stream),
                                    !.house_number = out.house_number,
                                    !.ts = ts])

TokenRequest(r) ==
    LET path == SignPath(r.ts, r.house_number)
    IN [op |-> "_download_webpage", url |-> TokenUrl(path, Sig(path))]

\* token = self._download_webpage('http://iview.abc.net.au{0}&sig={1}'...), lines 142-143
DownloadToken(c) ==
    LET r == calls[c]
    IN /\ r.pc = "token"
       /\ \E token \in Tokens :
            Store(c, [r EXCEPT !.pc = "tier",
                               !.token = Some(token),
                               !.fetched = Append(@, Some(token)),
                               !.log = Append(@, TokenRequest(r))])

DownloadTokenFails(c) ==
    LET r == calls[c]
    IN /\ r.pc = "token"
       /\ Store(c, Finished([r EXCEPT !.fetched = Append(@, None),
                                      !.log = Append(@, TokenRequest(r))],
                            DownloadError))

\* A loop iteration whose tier has no url: lines 151-154 (and 160-184 when it
\* was the last tier).
TierAbsent(c) ==
    LET r == calls[c]
        sd == Tiers[r.tier]
        sd_url == TierUrl(Val(r.stream), sd)
    IN /\ r.pc = "tier"
       /\ ~Truthy(sd_url)
       /\ Store(c, AfterTier([r EXCEPT !.looked_up = Append(@, sd)], FALSE))

\* A loop iteration that fetches the tier's manifest: lines 151-159 (and
\* 160-184 when the loop ends with it).
TierManifest(c) ==
    LET r == calls[c]
        sd == Tiers[r.tier]
        sd_url == TierUrl(Val(r.stream), sd)
    IN /\ r.pc = "tier"
       /\ Truthy(sd_url)
       /\ \E nvariants \in 0..MaxVariants :
            LET m3u8_url == tokenize_url(Val(sd_url), Val(r.token))
                formats == _extract_m3u8_formats(m3u8_url, nvariants)
            IN Store(c, AfterTier([r EXCEPT !.looked_up = Append(@, sd),
                                            !.formats = Some(formats),
                                            !.fetched = Append(@, nvariants),
                                            !.log = Append(@, [op |-> "_extract_m3u8_formats",
                                                               url |-> m3u8_url,
                                                               tier |-> sd])],
                                  BreaksLoop(formats)))

\* One call, of either extractor, on any page the site may serve.
Init ==
    \E url \in Urls : \E page \in PagesOf(url) :
        /\ calls = [c \in {1} |-> NewCall(url)]
        /\ site = [u \in {url} |-> page]

\* Calls in progress together on one snapshot of both sites.
SnapshotNewsPages ==
    {NewsPage(Some([type |-> "Video", json_data |-> Some(JsonList(<<ElemFull, ElemAudio>>))]), None, OgMeta),
     NewsPage(None, Some(ExpiredBanner), OgMeta)}

SnapshotIviewPages ==
    {IviewPage(Some(Some(VideoParams(TRUE, TRUE, TRUE,
                                     <<StationIdEntry, ProgramEntry(TierNames, TRUE)>>)))),
     IviewPage(Some(Some(VideoParams(FALSE, TRUE, FALSE, <<ProgramEntry({}, FALSE)>>))))}

InitConcurrent ==
    \E news \in SnapshotNewsPages : \E iview \in SnapshotIviewPages :
        /\ calls \in [Calls -> {NewCall(url) : url \in Urls}]
        /\ site = [u \in Urls |-> IF u = NewsUrl THEN news ELSE iview]

Next ==
    \/ \E c \in DOMAIN calls : DownloadWebpage(c)
    \/ \E c \in DOMAIN calls : DownloadWebpageFails(c)
    \/ \E c \in DOMAIN calls : NewsExtract(c)
    \/ \E c \in DOMAIN calls : IviewVideoParams(c)
    \/ \E c \in DOMAIN calls : DownloadToken(c)
    \/ \E c \in DOMAIN calls : DownloadTokenFails(c)
    \/ \E c \in DOMAIN calls : TierAbsent(c)
    \/ \E c \in DOMAIN calls : TierManifest(c)

Spec == Init /\ [][Next]_vars

ConcurrentSpec == InitConcurrent /\ [][Next]_vars

\* ------------------------------------------------------------ properties
Done(r) == r.pc = "done"

Result(r) == Val(r.result)

IsIview(r) == r.ie = "abc.net.au:iview"

IsNews(r) == r.ie = "abc.net.au"

\* The manifest requests a call has made, and what each one yielded.
ManifestFetches(r) == SelectSeq(r.log, LAMBDA e : e.op = "_extract_m3u8_formats")

ManifestYields(r) == SubSeq(r.fetched, 3, Len(r.fetched))

\* The call entered the tier loop and has ended.
LoopOver(r) == Done(r) /\ r.token # None

HasTier(r, t) == t \in DOMAIN Val(r.stream).streams.hls

\* C1: the tiers are looked up in the order sd, sd-low, and a call whose sd
\* tier is absent or yielded no format has looked up sd-low, and fetched its
\* manifest when it has a url, before the call ends.
C1_SdLowAttempted ==
    \A c \in DOMAIN calls :
        LET r == calls[c]
            fetches == ManifestFetches(r)
            yields == ManifestYields(r)
        IN IsIview(r) =>
           /\ r.looked_up \in {<<>>, <<"sd">>, <<"sd", "sd-low">>}
           /\ \A i, j \in 1..Len(fetches) :
                 i < j => fetches[i].tier = "sd" /\ fetches[j].tier = "sd-low"
           /\ (LoopOver(r) /\ (~HasTier(r, "sd") \/ yields[1] = 0)) =>
                 /\ r.looked_up = <<"sd", "sd-low">>
                 /\ HasTier(r, "sd-low") =>
                       /\ fetches # <<>>
                       /\ fetches[Len(fetches)].tier = "sd-low"
                       /\ fetches[Len(fetches)].url.url = Val(r.stream).streams.hls["sd-low"]

C1_Witness ==
    \E c \in DOMAIN calls :
        LET r == calls[c]
        IN /\ IsIview(r) /\ LoopOver(r)
           /\ HasTier(r, "sd") /\ HasTier(r, "sd-low")
           /\ Len(ManifestYields(r)) = 2
           /\ ManifestYields(r)[1] = 0
           /\ ManifestYields(r)[2] > 0
           /\ Result(r).kind = "MediaRecord"

\* C2: the formats of a returned record all come from the one tier fetched
\* last, which is the first tier that yielded a format; no manifest is fetched
\* after a tier has yielded, and a call one of whose tiers yielded returns a
\* record.
C2_OneTierSelected ==
    \A c \in DOMAIN calls :
        LET r == calls[c]
            fetches == ManifestFetches(r)
            yields == ManifestYields(r)
        IN IsIview(r) =>
           /\ \A i \in 1..Len(yields) : i < Len(yields) => yields[i] = 0
           /\ (Done(r) /\ Result(r).kind = "MediaRecord") =>
                 /\ fetches # <<>>
                 /\ yields[Len(yields)] > 0
                 /\ Len(Result(r).formats) = yields[Len(yields)]
                 /\ \A i \in 1..Len(Result(r).formats) :
                       Result(r).formats[i].url = fetches[Len(fetches)].url
           /\ (LoopOver(r) /\ \E i \in 1..Len(yields) : yields[i] > 0) =>
                 Result(r).kind = "MediaRecord"

C2_Witness ==
    \E c \in DOMAIN calls :
        LET r == calls[c]
        IN /\ IsIview(r) /\ LoopOver(r)
           /\ HasTier(r, "sd") /\ HasTier(r, "sd-low")
           /\ ManifestYields(r) = <<2>>
           /\ Result(r).kind = "MediaRecord"
           /\ Len(Result(r).formats) = 2

\* C3: a call none of whose tiers yielded a format ends with the typed
\* extraction error, also when neither tier has a url.
C3_NoFormatsIsTypedError ==
    \A c \in DOMAIN calls :
        LET r == calls[c]
            yields == ManifestYields(r)
        IN (IsIview(r) /\ LoopOver(r) /\ \A i \in 1..Len(yields) : yields[i] = 0) =>
              /\ Result(r).kind = "error"
              /\ Result(r).exc = "ExtractorError"

\* C4: a playlist without a 'program' entry ends the call with the typed
\* extraction error before any token or manifest request; otherwise the first
\* 'program' entry in playlist order is the stream selected.
C4_NoProgramEntryIsTypedError ==
    \A c \in DOMAIN calls :
        LET r == calls[c]
            page == Val(r.webpage)
            d == Val(Val(page.videoParams))
            programs == {i \in 1..Len(d["playlist"]) : d["playlist"][i].type = "program"}
        IN (/\ IsIview(r)
            /\ r.pc \notin {"start", "page"}
            /\ r.webpage # None
            /\ page.videoParams # None
            /\ Val(page.videoParams) # None
            /\ ("title" \in DOMAIN d \/ "seriesTitle" \in DOMAIN d)) =>
              IF programs = {}
              THEN /\ Done(r)
                   /\ Result(r).kind = "error"
                   /\ Result(r).exc = "ExtractorError"
                   /\ Len(r.log) = 1
              ELSE /\ r.stream # None
                   /\ \E i \in programs :
                         /\ \A j \in programs : i <= j
                         /\ Val(r.stream) = d["playlist"][i]

\* C5: an article page without an inline data block ends the call with the
\* expected ExtractorError carrying the banner text when the page has an
\* expired banner, and with the unexpected 'Unable to extract video urls'
\* ExtractorError when it has none; nothing is handed to _parse_json.
C5_NoDataBlockErrors ==
    \A c \in DOMAIN calls :
        LET r == calls[c]
            page == Val(r.webpage)
            res == Result(r)
        IN (IsNews(r) /\ Done(r) /\ r.webpage # None /\ page.block = None) =>
              /\ res.kind = "error"
              /\ res.exc = "ExtractorError"
              /\ IF page.expired # None
                 THEN /\ res.expected
                      /\ res.msg = <<"abc.net.au", " said: ", Val(page.expired)>>
                 ELSE /\ ~res.expected
                      /\ res.msg = <<"Unable to extract video urls">>
              /\ \A i \in 1..Len(r.log) : r.log[i].op # "_parse_json"

C5_Witness ==
    \E c \in DOMAIN calls :
        LET r == calls[c]
        IN /\ IsNews(r) /\ Done(r) /\ r.webpage # None
           /\ Val(r.webpage).block = None
           /\ Val(r.webpage).expired = Some("This video has expired.")
           /\ Result(r).kind = "error"

\* C6: a YouTube data block whose elements all have a url gives a playlist of
\* exactly those urls, one entry per element in the same order, a single
\* object giving one entry; a YouTube block never gives a media record.
C6_YouTubePlaylist ==
    \A c \in DOMAIN calls :
        LET r == calls[c]
            mobj == Val(Val(r.webpage).block)
            parsed == Val(mobj.json_data)
            n == IF parsed.isList THEN Len(parsed.items) ELSE 1
            elem(i) == IF parsed.isList THEN parsed.items[i] ELSE parsed.obj
            res == Result(r)
        IN (/\ IsNews(r) /\ Done(r) /\ r.webpage # None
            /\ Val(r.webpage).block # None
            /\ mobj.type = "YouTube"
            /\ mobj.json_data # None) =>
              /\ res.kind # "MediaRecord"
              /\ (\A i \in 1..n : "url" \in DOMAIN elem(i)) =>
                    /\ res.kind = "PlaylistRecord"
                    /\ Len(res.entries) = n
                    /\ \A i \in 1..n : res.entries[i].url = elem(i).url
              /\ res.kind = "PlaylistRecord" => \A i \in 1..n : "url" \in DOMAIN elem(i)

C6_Witness ==
    \E c \in DOMAIN calls :
        LET r == calls[c]
            mobj == Val(Val(r.webpage).block)
        IN /\ IsNews(r) /\ Done(r) /\ r.webpage # None
           /\ Val(r.webpage).block # None
           /\ mobj.type = "YouTube"
           /\ mobj.json_data # None
           /\ Val(mobj.json_data).isList
           /\ Result(r).kind = "PlaylistRecord"
           /\ Len(Result(r).entries) = 2
           /\ Result(r).entries[1].url # Result(r).entries[2].url

\* C7: a returned article record has one format per parsed element, at least
\* one, and every format has a non-empty url.
C7_FormatsHaveUrls ==
    \A c \in DOMAIN calls :
        LET r == calls[c]
            parsed == Val(Val(Val(r.webpage).block).json_data)
            n == IF parsed.isList THEN Len(parsed.items) ELSE 1
            res == Result(r)
        IN (IsNews(r) /\ Done(r) /\ res.kind = "MediaRecord") =>
              /\ res.formats # <<>>
              /\ Len(res.formats) = n
              /\ \A i \in 1..Len(res.formats) : res.formats[i].url # ""

\* C8: the token request url is 'http://iview.abc.net.au' + path + '&sig=' +
\* sig with path built from the call's timestamp and the page's
\* episodeHouseNumber and sig the hex HMAC-SHA256 of path under the fixed key;
\* calls with the same timestamp and house number request the same url.
C8_TokenRequestUrl ==
    /\ \A c \in DOMAIN calls :
          LET r == calls[c]
              d == Val(Val(Val(r.webpage).videoParams))
              hn == IF "episodeHouseNumber" \in DOMAIN d
                    THEN d["episodeHouseNumber"] ELSE "None"
              path == <<"/auth/hls/sign?ts=", r.ts, "&hn=", hn, "&d=android-mobile">>
              sig == [mac |-> "hmac-sha256", key |-> "android.content.res.Resources",
                      msg |-> path, enc |-> "hex"]
          IN (IsIview(r) /\ Len(r.log) >= 2) =>
                /\ r.ts \in 1..MaxTs
                /\ r.log[2].op = "_download_webpage"
                /\ r.log[2].url = <<"http://iview.abc.net.au", path, "&sig=", sig>>
    /\ \A c1, c2 \in DOMAIN calls :
          LET r1 == calls[c1]
              r2 == calls[c2]
          IN (/\ IsIview(r1) /\ IsIview(r2)
              /\ Len(r1.log) >= 2 /\ Len(r2.log) >= 2
              /\ r1.ts = r2.ts
              /\ r1.house_number = r2.house_number) =>
                r1.log[2].url = r2.log[2].url

C8_Witness ==
    \E c1, c2 \in DOMAIN calls :
        /\ c1 # c2
        /\ IsIview(calls[c1]) /\ IsIview(calls[c2])
        /\ Len(calls[c1].log) >= 2 /\ Len(calls[c2].log) >= 2
        /\ calls[c1].ts = calls[c2].ts
        /\ calls[c1].house_number = Some("ZW0898A003S00")

\* The inputs of a call: its url, its timestamp, what its fetches returned.
SameInputs(r1, r2) ==
    /\ r1.url = r2.url
    /\ r1.ts = r2.ts
    /\ r1.fetched = r2.fetched

C10_RequestOrder ==
    \A c \in DOMAIN calls :
        LET r == calls[c]
            n == Len(r.log)
        IN IsIview(r) =>
           /\ n <= 4
           /\ Len(r.fetched) = n
           /\ n >= 1 => r.log[1] = [op |-> "_download_webpage", url |-> r.url]
           /\ n >= 2 =>
                 /\ r.log[2].op = "_download_webpage"
                 /\ r.log[2].url[1] = "http://iview.abc.net.au"
                 /\ r.fetched[1] # None
                 /\ r.video_params # None
           /\ \A i \in 3..n :
                 /\ r.log[i].op = "_extract_m3u8_formats"
                 /\ r.fetched[2] # None
                 /\ r.log[i].url.query = [hdnea |-> Val(r.fetched[2])]
                 /\ r.log[i].url.url = Val(r.stream).streams.hls[r.log[i].tier]
           /\ n = 4 => r.log[3].tier = "sd" /\ r.log[4].tier = "sd-low"
           /\ (r.pc = "tier" \/ LoopOver(r)) => n >= 2 /\ r.fetched[2] = r.token
           /\ (Done(r) /\ r.stream # None /\ ~HasTier(r, "sd") /\ ~HasTier(r, "sd-low")
                 /\ r.fetched[2] # None) => n = 2

C10_Witness ==
    \E c \in DOMAIN calls :
        LET r == calls[c]
        IN /\ IsIview(r) /\ Done(r)
           /\ Len(r.log) = 4
           /\ r.log[3].url # r.log[4].url

====
